---- MODULE Spec2Model ----
(***************************************************************************)
(* Model of py_mcp_client: the MCPClient session (MCPClient.py), its two   *)
(* entry points (MCPClient.main, figma_client.main) and the stand-alone    *)
(* client (client.py) with its readiness poll and command loop.            *)
(*                                                                         *)
(* Text is modelled as sequences of one-character strings, so that         *)
(* str.strip, str.lower, str.startswith, str.split and json.loads are      *)
(* computed the way the code computes them.                                *)
(***************************************************************************)
EXTENDS Integers, Sequences, FiniteSets, TLC

\* ------------------------------------------------------------------ bounds
\* number of input lines one command loop reads before end-of-input
MaxLines == 2
\* number of times a direct caller invokes MCPClient.__aexit__
MaxClose == 2
\* the method calls a library caller makes on a session it has entered
MaxApi == 2

\* ------------------------------------------------------- program constants
\* client.py:50  max_retries = 30
max_retries == 30

\* --------------------------------------------------------- text primitives
None == "None"

Range(s) == {s[i] : i \in 1..Len(s)}

IsSpace(c) == c = " "

\* str.lower on one character (the letters the inputs use)
LowerChar(c) ==
    CASE c = "H" -> "h"
      [] c = "E" -> "e"
      [] c = "L" -> "l"
      [] c = "P" -> "p"
      [] c = "X" -> "x"
      [] c = "I" -> "i"
      [] c = "T" -> "t"
      [] c = "A" -> "a"
      [] c = "D" -> "d"
      [] OTHER -> c

\* str.lower
Lower(s) == [i \in 1..Len(s) |-> LowerChar(s[i])]

\* str.startswith
StartsWith(s, p) == Len(s) >= Len(p) /\ SubSeq(s, 1, Len(p)) = p

\* the least and the greatest member of a non-empty set of numbers
Min(S) == CHOOSE x \in S : \A y \in S : x <= y
Max(S) == CHOOSE x \in S : \A y \in S : x >= y

\* str.strip: from the first to the last character that is no space
Strip(s) ==
    LET keep == {i \in 1..Len(s) : ~IsSpace(s[i])} IN
    IF keep = {} THEN <<>> ELSE SubSeq(s, Min(keep), Max(keep))

\* index of the first occurrence of sep in s at or after i, 0 when there is none
Find(s, sep, i) ==
    LET hits == {j \in i..(Len(s) - Len(sep) + 1) : SubSeq(s, j, j + Len(sep) - 1) = sep} IN
    IF hits = {} THEN 0 ELSE Min(hits)

\* str.split(sep, 1): at most one split, at the first occurrence of sep
Split1(s, sep) ==
    LET i == Find(s, sep, 1) IN
    IF i = 0 THEN <<s>>
    ELSE <<SubSeq(s, 1, i - 1), SubSeq(s, i + Len(sep), Len(s))>>

\* ------------------------------------------------------------- json.loads
\* JSON values are tagged: dict (a function from keys to values), list, int,
\* str, null.  The parser covers objects, arrays, non-negative integers,
\* strings without escapes and null, with spaces between the tokens.
JDict(f) == [k |-> "dict", v |-> f]
JList(e) == [k |-> "list", v |-> e]
JInt(n) == [k |-> "int", v |-> n]
JStr(t) == [k |-> "str", v |-> t]
JNull == [k |-> "null", v |-> 0]
EmptyDict == JDict(<<>>)

IsDigit(c) == c \in {"0", "1", "2", "3", "4", "5", "6", "7", "8", "9"}

DigitVal(c) ==
    CASE c = "0" -> 0 [] c = "1" -> 1 [] c = "2" -> 2 [] c = "3" -> 3
      [] c = "4" -> 4 [] c = "5" -> 5 [] c = "6" -> 6 [] c = "7" -> 7
      [] c = "8" -> 8 [] OTHER -> 9

\* the first index at or after i that holds no space
Skip(s, i) ==
    LET rest == {j \in i..Len(s) : ~IsSpace(s[j])} IN
    IF rest = {} THEN (IF i > Len(s) THEN i ELSE Len(s) + 1) ELSE Min(rest)

JFail == [ok |-> FALSE, val |-> JNull, next |-> 0]
JOk(v, n) == [ok |-> TRUE, val |-> v, next |-> n]

\* the digits of s from i on: [n: their value, next: the index after them]
ScanInt(s, i) ==
    LET stop == {j \in i..Len(s) : ~IsDigit(s[j])}
        end == IF stop = {} THEN Len(s) + 1 ELSE Min(stop)
        value[j \in (i - 1)..(end - 1)] ==
            IF j = i - 1 THEN 0 ELSE 10 * value[j - 1] + DigitVal(s[j])
    IN  [n |-> value[end - 1], next |-> end]

\* a string literal whose opening quote stands before index i
ParseString(s, i) ==
    LET j == Find(s, <<"\"">>, i) IN
    IF j = 0 THEN JFail ELSE JOk(JStr(SubSeq(s, i, j - 1)), j + 1)

\* The recursive descent over s.  parse[<<"value", i>>] is the value that
\* starts at the first non-space index from i on; parse[<<"members", i>>] the
\* members of an object after "{" or "," ("key": value, a later key replacing
\* an earlier equal one) as the object's mapping; parse[<<"elems", i>>] the
\* elements of an array after "[" or ",".
ParseAll(s) ==
    LET parse[a \in {"value", "members", "elems"} \X (1..(Len(s) + 2))] ==
        LET i == Skip(s, a[2]) IN
        IF i > Len(s) THEN JFail
        ELSE IF a[1] = "value" THEN
            IF s[i] = "{" THEN
                LET j == Skip(s, i + 1) IN
                IF j <= Len(s) /\ s[j] = "}" THEN JOk(EmptyDict, j + 1)
                ELSE LET m == parse[<<"members", j>>] IN
                     IF m.ok THEN JOk(JDict(m.val), m.next) ELSE JFail
            ELSE IF s[i] = "[" THEN
                LET j == Skip(s, i + 1) IN
                IF j <= Len(s) /\ s[j] = "]" THEN JOk(JList(<<>>), j + 1)
                ELSE LET e == parse[<<"elems", j>>] IN
                     IF e.ok THEN JOk(JList(e.val), e.next) ELSE JFail
            ELSE IF s[i] = "\"" THEN ParseString(s, i + 1)
            ELSE IF IsDigit(s[i]) THEN
                IF s[i] = "0" THEN JOk(JInt(0), i + 1)
                ELSE JOk(JInt(ScanInt(s, i).n), ScanInt(s, i).next)
            ELSE IF StartsWith(SubSeq(s, i, Len(s)), <<"n", "u", "l", "l">>)
                THEN JOk(JNull, i + 4)
            ELSE JFail
        ELSE IF a[1] = "members" THEN
            IF s[i] # "\"" THEN JFail
            ELSE LET key == ParseString(s, i + 1)
                     c == Skip(s, key.next)
                 IN
                IF ~key.ok \/ c > Len(s) \/ s[c] # ":" THEN JFail
                ELSE LET val == parse[<<"value", c + 1>>]
                         e == Skip(s, val.next)
                     IN
                    IF ~val.ok \/ e > Len(s) THEN JFail
                    ELSE IF s[e] = "}" THEN JOk(key.val.v :> val.val, e + 1)
                    ELSE IF s[e] = "," THEN
                        LET more == parse[<<"members", e + 1>>] IN
                        IF more.ok THEN JOk(more.val @@ (key.val.v :> val.val), more.next)
                        ELSE JFail
                    ELSE JFail
        ELSE
            LET val == parse[<<"value", i>>]
                e == Skip(s, val.next)
            IN
            IF ~val.ok \/ e > Len(s) THEN JFail
            ELSE IF s[e] = "]" THEN JOk(<<val.val>>, e + 1)
            ELSE IF s[e] = "," THEN
                LET more == parse[<<"elems", e + 1>>] IN
                IF more.ok THEN JOk(<<val.val>> \o more.val, more.next) ELSE JFail
            ELSE JFail
    IN  parse[<<"value", 1>>]

\* json.loads: [ok: FALSE] stands for json.JSONDecodeError
JsonLoads(s) ==
    LET r == ParseAll(s) IN
    IF r.ok /\ Skip(s, r.next) = Len(s) + 1 THEN [ok |-> TRUE, val |-> r.val]
    ELSE [ok |-> FALSE, val |-> JNull]

\* isinstance(arguments, dict)
IsDict(v) == v.k = "dict"

\* ------------------------------------------------------------ the inputs
Sep == <<",", " ">>
T_add == <<"a", "d", "d">>
T_Add == <<"A", "d", "d">>
T_helpme == <<"h", "e", "l", "p", " ", "m", "e">>
T_nope == <<"n", "o", "p", "e">>

\* the tool names a server may list
ToolUniverse == {T_add, T_Add, T_helpme}
\* the catalogs a server may answer list_tools with
Catalogs == {{T_add}, {T_Add}, {T_add, T_helpme}, {}}

\* JSON texts of objects, each with the object it denotes
Obj_ab == JDict((<<"a">> :> JInt(1)) @@ (<<"b">> :> JInt(2)))
ObjTexts ==
    { [text |-> <<"{", "}">>, obj |-> EmptyDict],
      [text |-> <<"{", "\"", "a", "\"", ":", "1", ",", "\"", "b", "\"", ":", "2", "}">>,
       obj |-> Obj_ab],
      [text |-> <<"{", "\"", "a", "\"", ":", " ", "1", ",", " ", "\"", "b", "\"", ":", " ", "2", "}">>,
       obj |-> Obj_ab] }
\* JSON texts of values that are no object
NonObjTexts == { <<"[", "1", "]">>, <<"1">>, <<"\"", "a", "\"">>, <<"n", "u", "l", "l">> }
\* texts that are no JSON
BadJsonTexts == { <<"{">>, <<"{", "a", ":", " ", "1", "}">>, <<"{", "}", "}">>, <<" ">> }

\* lines <tool>, <json-object>, bare or padded with spaces
InvokeLines(names) ==
    { [line |-> pad \o t \o Sep \o e.text \o pad, tool |-> t, obj |-> e.obj] :
        t \in names, e \in ObjTexts, pad \in {<<>>, <<" ">>} }
\* lines that hold no ", " at all
NoSepLines == { T_add, T_add \o <<",">> \o <<"{", "}">>, T_add \o <<" ">> \o <<"{", "}">> }
\* lines whose right-hand side is no JSON
BadJsonLines == { T_add \o Sep \o x : x \in BadJsonTexts }
\* lines whose right-hand side is JSON but no object
NonObjLines == { T_add \o Sep \o x : x \in NonObjTexts }
\* the directives and the empty lines
DirectiveLines ==
    { <<"e", "x", "i", "t">>, <<"E", "x", "i", "t">>, <<" ", "e", "x", "i", "t">>,
      <<"h", "e", "l", "p">>, <<"H", "E", "L", "P">>,
      <<"h", "e", "l", "p", " ">> \o T_add, <<"H", "e", "l", "p", " ">> \o T_Add,
      <<"h", "e", "l", "p", " ">> \o T_nope }
BlankLines == { <<>>, <<" ">> }

\* every line the prompt may return
Lines ==
    {x.line : x \in InvokeLines(ToolUniverse \cup {T_nope})}
        \cup NoSepLines \cup BadJsonLines \cup NonObjLines \cup DirectiveLines \cup BlankLines

\* ------------------------------------------------------ the command parser
\* One pass of the loop body over a line read from the prompt
\* (MCPClient.py:111-157, client.py:90-136): what the line makes the loop do.
Cmd(kind, tool, args) == [kind |-> kind, tool |-> tool, args |-> args]

\* ParseInvoke with `text.split(', ')` (no limit): a second ", " makes more
\* than two parts
ParseInvoke_SplitAll(text, catalog) ==
    LET parts == Split1(text, Sep) IN
    IF Len(parts) # 2 \/ Find(parts[2], Sep, 1) # 0
        THEN Cmd("rejected_format", <<>>, EmptyDict)
    ELSE LET tool_name == Strip(parts[1])
             arguments_str == Strip(parts[2])
             arguments == JsonLoads(arguments_str)
         IN
        IF ~arguments.ok THEN Cmd("rejected_json", tool_name, EmptyDict)
        ELSE IF ~IsDict(arguments.val) THEN Cmd("rejected_notdict", tool_name, EmptyDict)
        ELSE IF tool_name \notin catalog THEN Cmd("rejected_notfound", tool_name, EmptyDict)
        ELSE Cmd("invoke", tool_name, arguments.val)

\* ParseInvoke without the catalog lookup of MCPClient.py:155
ParseInvoke_NoCatalogCheck(text, catalog) ==
    LET parts == Split1(text, Sep) IN
    IF Len(parts) # 2 THEN Cmd("rejected_format", <<>>, EmptyDict)
    ELSE LET tool_name == Strip(parts[1])
             arguments_str == Strip(parts[2])
             arguments == JsonLoads(arguments_str)
         IN
        IF ~arguments.ok THEN Cmd("rejected_json", tool_name, EmptyDict)
        ELSE IF ~IsDict(arguments.val) THEN Cmd("rejected_notdict", tool_name, EmptyDict)
        ELSE Cmd("invoke", tool_name, arguments.val)

ParseInvoke(text, catalog) ==
    LET parts == Split1(text, Sep) IN
    IF Len(parts) # 2 THEN Cmd("rejected_format", <<>>, EmptyDict)
    ELSE LET tool_name == Strip(parts[1])
             arguments_str == Strip(parts[2])
             arguments == JsonLoads(arguments_str)
         IN
        IF ~arguments.ok THEN Cmd("rejected_json", tool_name, EmptyDict)
        ELSE IF ~IsDict(arguments.val) THEN Cmd("rejected_notdict", tool_name, EmptyDict)
        ELSE IF tool_name \notin catalog THEN Cmd("rejected_notfound", tool_name, EmptyDict)
        ELSE Cmd("invoke", tool_name, arguments.val)

\* ParseCommand with the invocation tried before the `help ` test
ParseCommand_InvokeFirst(raw, catalog) ==
    LET text == Strip(raw) IN
    IF text = <<>> THEN Cmd("noop", <<>>, EmptyDict)
    ELSE IF Lower(text) = <<"e", "x", "i", "t">> THEN Cmd("exit", <<>>, EmptyDict)
    ELSE IF Lower(text) = <<"h", "e", "l", "p">> THEN Cmd("help", <<>>, EmptyDict)
    ELSE IF ParseInvoke(text, catalog).kind = "invoke" THEN ParseInvoke(text, catalog)
    ELSE IF StartsWith(Lower(text), <<"h", "e", "l", "p", " ">>) THEN
        LET help_tool_name == Split1(text, <<" ">>)[2] IN
        Cmd(IF help_tool_name \in catalog THEN "help_tool" ELSE "help_notfound",
            help_tool_name, EmptyDict)
    ELSE ParseInvoke(text, catalog)

\* MCPClient.py:111-160 (client.py:90-139): what the loop makes of one line
ParseCommand(raw, catalog) ==
    LET text == Strip(raw) IN
    IF text = <<>> THEN Cmd("noop", <<>>, EmptyDict)
    ELSE IF Lower(text) = <<"e", "x", "i", "t">> THEN Cmd("exit", <<>>, EmptyDict)
    ELSE IF Lower(text) = <<"h", "e", "l", "p">> THEN Cmd("help", <<>>, EmptyDict)
    ELSE IF StartsWith(Lower(text), <<"h", "e", "l", "p", " ">>) THEN
        LET help_tool_name == Split1(text, <<" ">>)[2] IN
        Cmd(IF help_tool_name \in catalog THEN "help_tool" ELSE "help_notfound",
            help_tool_name, EmptyDict)
    ELSE ParseInvoke(text, catalog)

\* ParseCommand on every line and catalog of the model, tabulated (@@ makes
\* the function an explicit table)
ParseTable == [k \in Catalogs \X Lines |-> ParseCommand(k[2], k[1])] @@ <<>>

\* ------------------------------------------------------------ responses
\* A tool response: structured_content (None, an empty document or a
\* document) and content, a list of items that may or may not carry text.
Item(hasText, text) == [hasText |-> hasText, text |-> text]
Response(sc, content) == [structured_content |-> sc, content |-> content]
Responses ==
    { Response("doc", <<>>),
      Response("doc", <<Item(TRUE, "hello")>>),
      Response("empty_doc", <<Item(TRUE, "hello")>>),
      Response(None, <<Item(TRUE, "hello"), Item(TRUE, "second")>>),
      Response(None, <<Item(FALSE, "")>>),
      Response(None, <<>>) }

\* truth value of a document or text, as Python's `if x:`
Truthy(x) == x \notin {None, "empty_doc", ""}

\* MCPClient.py:162-167, client.py:141-146: what is printed for a response;
\* [ok: FALSE] stands for the AttributeError of an item without text
Render(r) ==
    IF Truthy(r.structured_content)
        THEN [ok |-> TRUE, branch |-> "structured", out |-> r.structured_content]
    ELSE IF r.content # <<>>
        THEN IF r.content[1].hasText
                THEN [ok |-> TRUE, branch |-> "text", out |-> r.content[1].text]
                ELSE [ok |-> FALSE, branch |-> "text", out |-> None]
    ELSE [ok |-> TRUE, branch |-> "raw", out |-> "raw"]

\* the answers of the status tool during the readiness poll
StatusResponses ==
    { Response(None, <<>>),
      Response(None, <<Item(TRUE, "")>>),
      Response(None, <<Item(FALSE, "")>>),
      Response(None, <<Item(TRUE, "connected: true")>>),
      Response(None, <<Item(TRUE, "connected: false")>>),
      Response(None, <<Item(TRUE, "other: 1")>>),
      Response(None, <<Item(TRUE, "null")>>),
      Response(None, <<Item(TRUE, "- item")>>),
      Response(None, <<Item(TRUE, "{")>>) }

\* yaml.safe_load on the status texts: a mapping, a list, None or an error
YamlSafeLoad(text) ==
    CASE text = "connected: true" -> [ok |-> TRUE, kind |-> "dict", connected |-> "True"]
      [] text = "connected: false" -> [ok |-> TRUE, kind |-> "dict", connected |-> "False"]
      [] text = "other: 1" -> [ok |-> TRUE, kind |-> "dict", connected |-> None]
      [] text = "null" -> [ok |-> TRUE, kind |-> "none", connected |-> None]
      [] text = "- item" -> [ok |-> TRUE, kind |-> "list", connected |-> None]
      [] OTHER -> [ok |-> FALSE, kind |-> "none", connected |-> None]

\* client.py:55-65: what one status response makes the poll do:
\* "connected", "not_connected", "no_status", or "error" (an exception that
\* the except clause of line 66 catches)
StatusOutcome(r) ==
    IF r.content # <<>> /\ ~r.content[1].hasText THEN "error"
    ELSE IF r.content # <<>> /\ Truthy(r.content[1].text) THEN
        LET status_data == YamlSafeLoad(r.content[1].text) IN
        IF ~status_data.ok THEN "error"
        ELSE IF status_data.kind = "none" THEN "not_connected"
        ELSE IF status_data.kind # "dict" THEN "error"
        ELSE IF status_data.connected = "True" THEN "connected"
        ELSE "not_connected"
    ELSE "no_status"

\* the loop condition with `<=` for `<`
PollContinues_OffByOne(connected, n) == ~connected /\ n <= max_retries

\* the loop condition without `not plugin_connected`
PollContinues_IgnoresConnected(connected, n) == n < max_retries

\* client.py:51: the condition of the poll's while loop
PollContinues(connected, n) == ~connected /\ n < max_retries

\* ---------------------------------------------------------------- state
VARIABLES
    prog,             \* the entry point: client.py, figma_client.py, MCPClient.py, or a direct user of MCPClient
    pc,               \* the position of the run
    exc,              \* the exception that is propagating, "none" when there is none
    node_found,       \* environment: shutil.which('node') finds an executable
    psutil_ok,        \* environment: psutil can be imported
    procs,            \* environment: the live child processes, [pid, cmdline]
    transport,        \* self.transport: [kind, cmdline], of kind "none" before construction
    client,           \* self.client
    server_pid,       \* self.server_pid
    command_name,     \* self.command_name
    script_path,      \* self.script_path
    init_delay,       \* self.init_delay
    transportOpen,    \* the transport's connection is open
    delayWaited,      \* __aenter__ slept init_delay
    teardown,         \* the teardown calls made so far, in order
    closeCalls,       \* the number of times __aexit__ was entered
    closeRaised,      \* an __aexit__ call let an error out
    plugin_connected, \* client.py:48
    retries,          \* client.py:49
    statusCalls,      \* the status calls the poll made
    pollSleeps,       \* the one-second sleeps the poll made
    warned,           \* client.py:72 was printed
    lastStatus,       \* while the poll runs: how its latest attempt ended, "none" before the first
    prevStatus,       \* while the poll runs: how the attempt before that ended
    tool_map,         \* the names of the fetched catalog, empty before the fetch
    listCalls,        \* the list_tools requests sent
    linesRead,        \* the lines the prompt has returned
    line,             \* the line being handled
    lineCalls,        \* the call_tool requests sent for that line
    lastCall,         \* the last call_tool request: [tool, args]
    lastOutcome,      \* how that request ended
    response,         \* the response that request returned
    rendered,         \* what was printed for its response
    loopEnd,          \* how the command loop ended
    apiCalls,         \* the method calls a library caller has made on the session
    apiTool,          \* the tool name of the caller's last direct call_tool, <<>> when none
    apiSent,          \* that call was passed on to self.client.call_tool
    apiOutcome        \* how that call ended: "none", "response" or "error"

envVars == <<node_found, psutil_ok>>
selfVars == <<transport, client, server_pid, command_name, script_path, init_delay>>
pollVars == <<plugin_connected, retries, statusCalls, pollSleeps, warned, lastStatus,
             prevStatus>>
loopVars == <<linesRead, line, lineCalls, lastCall, lastOutcome, response, rendered,
             loopEnd>>
closeVars == <<teardown, closeCalls, closeRaised>>
apiVars == <<apiCalls, apiTool, apiSent, apiOutcome>>
vars == <<prog, pc, exc, envVars, procs, selfVars, transportOpen, delayWaited,
          closeVars, pollVars, tool_map, listCalls, loopVars, apiVars>>

NoLine == <<"\n">>
NoCall == [tool |-> <<>>, args |-> EmptyDict]
NoResponse == Response("unset", <<>>)
NodeCmdline == <<"node", "dist/index.js">>
NoTransport == [kind |-> "none", cmdline |-> <<>>]
\* the transports a caller may hand to MCPClient: [given: FALSE] stands for
\* transport=None, cmdline is the command line the transport itself runs
TransportArgs ==
    { [given |-> FALSE, cmdline |-> <<>>],
      [given |-> TRUE, cmdline |-> <<>>],
      [given |-> TRUE, cmdline |-> NodeCmdline] }

\* the entry points that go through MCPClient
SessionProgs == {"figma", "generic", "direct"}

Init ==
    /\ prog \in {"client"} \cup SessionProgs
    /\ pc = "start"
    /\ exc = "none"
    /\ node_found \in (IF prog \in {"client", "figma"} THEN BOOLEAN ELSE {TRUE})
    /\ psutil_ok \in (IF prog = "figma" THEN BOOLEAN ELSE {TRUE})
    /\ procs = {}
    /\ transport = NoTransport
    /\ client = None
    /\ server_pid = None
    /\ command_name = None
    /\ script_path = None
    /\ init_delay = 0
    /\ transportOpen = FALSE
    /\ delayWaited = FALSE
    /\ teardown = <<>>
    /\ closeCalls = 0
    /\ closeRaised = FALSE
    /\ plugin_connected = FALSE
    /\ retries = 0
    /\ statusCalls = 0
    /\ pollSleeps = 0
    /\ warned = FALSE
    /\ lastStatus = "none"
    /\ prevStatus = "none"
    /\ tool_map = {}
    /\ listCalls = 0
    /\ linesRead = 0
    /\ line = NoLine
    /\ lineCalls = 0
    /\ lastCall = NoCall
    /\ lastOutcome = "none"
    /\ response = NoResponse
    /\ rendered = <<"none">>
    /\ loopEnd = "none"
    /\ apiCalls = 0
    /\ apiTool = <<>>
    /\ apiSent = FALSE
    /\ apiOutcome = "none"

\* ------------------------------------------------------ MCPClient.__init__
\* MCPClient.py:50-62; args = <<>> stands for args=None and for args=[]
MCPClientInit(tr, command, args, delay) ==
    /\ transport' =
         IF tr.given THEN [kind |-> "given", cmdline |-> tr.cmdline]
         ELSE IF command # None
              THEN [kind |-> "launched", cmdline |-> <<command>> \o args]
         ELSE [kind |-> "default", cmdline |-> <<>>]
    /\ client' = None
    /\ server_pid' = None
    /\ command_name' = command
    /\ script_path' = IF args # <<>> THEN args[1] ELSE None
    /\ init_delay' = delay

\* the session itself launched the server process (MCPClient.py:53-54)
Launched == transport.kind = "launched"

\* figma_client.py:7-24, 28-33: resolve node, then MCPClient(**server_config)
FigmaStart ==
    /\ prog = "figma" /\ pc = "start"
    /\ IF node_found
          THEN /\ MCPClientInit([given |-> FALSE, cmdline |-> <<>>], "node",
                                  <<"dist/index.js">>, 2)
               /\ pc' = "aenter_open"
               /\ exc' = exc
          ELSE /\ pc' = "done"
               /\ exc' = "EnvironmentError"
               /\ UNCHANGED selfVars
    /\ UNCHANGED <<apiVars, prog, envVars, procs, transportOpen, delayWaited, closeVars,
                   pollVars, tool_map, listCalls, loopVars>>

\* MCPClient.py:180-183: MCPClient(StdioTransport())
GenericStart ==
    /\ prog = "generic" /\ pc = "start"
    /\ MCPClientInit([given |-> TRUE, cmdline |-> <<>>], None, <<>>, 2)
    /\ pc' = "aenter_open"
    /\ UNCHANGED <<apiVars, prog, exc, envVars, procs, transportOpen, delayWaited, closeVars,
                   pollVars, tool_map, listCalls, loopVars>>

\* a direct user of the class: MCPClient(...) with any arguments
DirectStart ==
    /\ prog = "direct" /\ pc = "start"
    /\ \E tr \in TransportArgs, command \in {None, "node"},
          args \in {<<>>, <<"dist/index.js">>}, delay \in {0, 2} :
            MCPClientInit(tr, command, args, delay)
    /\ pc' = "aenter_open"
    /\ UNCHANGED <<apiVars, prog, exc, envVars, procs, transportOpen, delayWaited, closeVars,
                   pollVars, tool_map, listCalls, loopVars>>

\* ----------------------------------------------------- MCPClient.__aenter__
\* `a in b` on the command-line words the model uses: each word contains
\* only itself
Contains(a, b) == a = b

\* find_server_pid as if psutil were always importable
FindServerPid_NoImportError(command, script) ==
    LET matches == {p \in procs : /\ p.cmdline # <<>>
                                  /\ Len(p.cmdline) >= 2
                                  /\ Contains(command, p.cmdline[1])
                                  /\ Contains(script, p.cmdline[2])}
    IN  IF matches = {} THEN {None} ELSE {p.pid : p \in matches}

\* MCPClient.py:20-35: the values find_server_pid may return
FindServerPid(command, script) ==
    LET matches == {p \in procs : /\ p.cmdline # <<>>
                                  /\ Len(p.cmdline) >= 2
                                  /\ Contains(command, p.cmdline[1])
                                  /\ Contains(script, p.cmdline[2])}
    IN  IF ~psutil_ok \/ matches = {} THEN {None} ELSE {p.pid : p \in matches}

\* the child process that opening the transport spawns
Spawned(t) ==
    IF t.cmdline = <<>> THEN {}
    ELSE {[pid |-> IF t.kind = "launched" THEN "pid_own" ELSE "pid_ext",
           cmdline |-> t.cmdline]}

\* MCPClient.py:65-66: Client(transport).__aenter__() opens the transport,
\* or fails; __aexit__ is not run for a failed __aenter__
AEnterOpen ==
    /\ prog \in SessionProgs /\ pc = "aenter_open"
    /\ client' = "Client"
    /\ \/ /\ transportOpen' = TRUE
          /\ procs' = procs \cup Spawned(transport)
          /\ pc' = "aenter_pid"
          /\ exc' = exc
       \/ /\ pc' = "main_except"
          /\ exc' = "Exception"
          /\ UNCHANGED <<transportOpen, procs>>
    /\ UNCHANGED <<apiVars, prog, envVars, transport, server_pid, command_name, script_path,
                   init_delay, delayWaited, closeVars, pollVars, tool_map, listCalls,
                   loopVars>>

\* MCPClient.py:68-70
AEnterPid ==
    /\ prog \in SessionProgs /\ pc = "aenter_pid"
    /\ IF command_name # None /\ script_path # None
          THEN server_pid' \in FindServerPid(command_name, script_path)
          ELSE server_pid' = server_pid
    /\ pc' = "aenter_delay"
    /\ UNCHANGED <<apiVars, prog, exc, envVars, procs, transport, client, command_name,
                   script_path, init_delay, transportOpen, delayWaited, closeVars,
                   pollVars, tool_map, listCalls, loopVars>>

\* MCPClient.py:73: the initialization delay is waited
WaitsDelay == command_name # None /\ init_delay > 0

\* MCPClient.py:72-77: __aenter__ returns; main goes on to
\* run_interactive_session, a library caller has the session in hand
AEnterDelay ==
    /\ prog \in SessionProgs /\ pc = "aenter_delay"
    /\ delayWaited' = WaitsDelay
    /\ pc' = IF prog = "direct" THEN "api" ELSE "get_tools"
    /\ UNCHANGED <<apiVars, prog, exc, envVars, procs, selfVars, transportOpen, closeVars,
                   pollVars, tool_map, listCalls, loopVars>>

\* MCPClient.py:75: the sleep is cancelled by an interrupt; __aenter__ raises
\* and the with-statement does not run __aexit__
AEnterDelayCancelled ==
    /\ prog \in SessionProgs /\ pc = "aenter_delay"
    /\ WaitsDelay
    /\ delayWaited' = TRUE
    /\ exc' = "CancelledError"
    /\ pc' = "main_except"
    /\ UNCHANGED <<apiVars, prog, envVars, procs, selfVars, transportOpen, closeVars,
                   pollVars, tool_map, listCalls, loopVars>>

\* ------------------------------------------------- client.py: start, poll
\* ClientStart with the transport built before node is resolved
ClientStart_TransportFirst ==
    /\ prog = "client" /\ pc = "start"
    /\ transport' = [kind |-> "launched", cmdline |-> NodeCmdline]
    /\ IF node_found
          THEN /\ pc' = "connect"
               /\ exc' = exc
          ELSE /\ pc' = "done"
               /\ exc' = "EnvironmentError"
    /\ UNCHANGED <<apiVars, prog, envVars, procs, client, server_pid, command_name, script_path,
                   init_delay, transportOpen, delayWaited, closeVars, pollVars,
                   tool_map, listCalls, loopVars>>

\* client.py:26-35
ClientStart ==
    /\ prog = "client" /\ pc = "start"
    /\ IF node_found
          THEN /\ transport' = [kind |-> "launched", cmdline |-> NodeCmdline]
               /\ pc' = "connect"
               /\ exc' = exc
          ELSE /\ pc' = "done"
               /\ exc' = "EnvironmentError"
               /\ transport' = transport
    /\ UNCHANGED <<apiVars, prog, envVars, procs, client, server_pid, command_name, script_path,
                   init_delay, transportOpen, delayWaited, closeVars, pollVars,
                   tool_map, listCalls, loopVars>>

\* client.py:39-40: entering `async with Client(transport=transport)`; a
\* failure goes to the finally clause of line 155
ClientConnect ==
    /\ prog = "client" /\ pc = "connect"
    /\ \/ /\ client' = "Client"
          /\ transportOpen' = TRUE
          /\ procs' = procs \cup Spawned(transport)
          /\ pc' = "init_sleep"
          /\ exc' = exc
       \/ /\ pc' = "terminate"
          /\ exc' = "Exception"
          /\ UNCHANGED <<client, transportOpen, procs>>
    /\ UNCHANGED <<apiVars, prog, envVars, transport, server_pid, command_name, script_path,
                   init_delay, delayWaited, closeVars, pollVars, tool_map, listCalls,
                   loopVars>>

\* client.py:43-49
ClientInitSleep ==
    /\ prog = "client" /\ pc = "init_sleep"
    /\ plugin_connected' = FALSE
    /\ retries' = 0
    /\ pc' = "poll"
    /\ UNCHANGED <<apiVars, prog, exc, envVars, procs, selfVars, transportOpen, delayWaited,
                   closeVars, statusCalls, pollSleeps, warned, lastStatus, prevStatus,
                   tool_map, listCalls, loopVars>>

\* PollCall without the `except Exception` of client.py:66: the error of a
\* status call leaves the with-block
PollCall_ErrorPropagates ==
    /\ prog = "client" /\ pc = "poll"
    /\ PollContinues(plugin_connected, retries)
    /\ statusCalls' = statusCalls + 1
    /\ \E o \in {StatusOutcome(r) : r \in StatusResponses} \cup {"error"} :
          /\ lastStatus' = o
          /\ prevStatus' = lastStatus
          /\ IF o = "connected"
                THEN /\ plugin_connected' = TRUE
                     /\ retries' = retries + 1
                     /\ pc' = "poll"
                     /\ exc' = exc
                ELSE IF o = "error"
                THEN /\ pc' = "client_exit"
                     /\ exc' = "Exception"
                     /\ UNCHANGED <<plugin_connected, retries>>
                ELSE /\ pc' = "poll_sleep"
                     /\ exc' = exc
                     /\ UNCHANGED <<plugin_connected, retries>>
    /\ UNCHANGED <<apiVars, prog, envVars, procs, selfVars, transportOpen, delayWaited,
                   closeVars, pollSleeps, warned, tool_map, listCalls, loopVars>>

\* client.py:51-61, 63-64, 66-67, 69: one status call of the poll and what
\* its answer, or its error, makes of the attempt
PollCall ==
    /\ prog = "client" /\ pc = "poll"
    /\ PollContinues(plugin_connected, retries)
    /\ statusCalls' = statusCalls + 1
    /\ \E o \in {StatusOutcome(r) : r \in StatusResponses} \cup {"error"} :
          /\ lastStatus' = o
          /\ prevStatus' = lastStatus
          /\ IF o = "connected"
                THEN /\ plugin_connected' = TRUE
                     /\ retries' = retries + 1
                     /\ pc' = "poll"
                ELSE /\ pc' = "poll_sleep"
                     /\ UNCHANGED <<plugin_connected, retries>>
    /\ exc' = exc
    /\ UNCHANGED <<apiVars, prog, envVars, procs, selfVars, transportOpen, delayWaited,
                   closeVars, pollSleeps, warned, tool_map, listCalls, loopVars>>

\* client.py:62, 65, 68, 69: the sleep of a failed attempt, then retries += 1
PollSleep ==
    /\ prog = "client" /\ pc = "poll_sleep"
    /\ pollSleeps' = pollSleeps + 1
    /\ retries' = retries + 1
    /\ pc' = "poll"
    /\ UNCHANGED <<apiVars, prog, exc, envVars, procs, selfVars, transportOpen, delayWaited,
                   closeVars, plugin_connected, statusCalls, warned, lastStatus,
                   prevStatus, tool_map, listCalls, loopVars>>

\* client.py:62, 65, 68: an interrupt cancels the sleep; the error leaves the
\* with-block
PollCancelled ==
    /\ prog = "client" /\ pc = "poll_sleep"
    /\ exc' = "CancelledError"
    /\ pc' = "client_exit"
    /\ lastStatus' = "none"
    /\ prevStatus' = "none"
    /\ UNCHANGED <<apiVars, prog, envVars, procs, selfVars, transportOpen, delayWaited,
                   closeVars, plugin_connected, retries, statusCalls, pollSleeps,
                   warned, tool_map, listCalls, loopVars>>

\* client.py:51, 71-72: the loop condition fails; a warning when not connected
PollExit ==
    /\ prog = "client" /\ pc = "poll"
    /\ ~PollContinues(plugin_connected, retries)
    /\ warned' = ~plugin_connected
    /\ lastStatus' = "none"
    /\ prevStatus' = "none"
    /\ pc' = "get_tools"
    /\ UNCHANGED <<apiVars, prog, exc, envVars, procs, selfVars, transportOpen, delayWaited,
                   closeVars, plugin_connected, retries, statusCalls, pollSleeps,
                   tool_map, listCalls, loopVars>>

\* ------------------------------------- the methods, called by a library user
\* MCPClient.py:88-91: get_tools() called directly: a list_tools request is
\* sent and its answer returned; an error leaves the caller's with-block
DirectGetTools ==
    /\ prog = "direct" /\ pc = "api"
    /\ apiCalls < MaxApi
    /\ apiCalls' = apiCalls + 1
    /\ listCalls' = listCalls + 1
    /\ \/ /\ tool_map' \in Catalogs
          /\ UNCHANGED <<pc, exc>>
       \/ /\ tool_map' = tool_map
          /\ pc' = "aexit_client"
          /\ exc' = "Exception"
    /\ UNCHANGED <<prog, envVars, procs, selfVars, transportOpen, delayWaited,
                   closeVars, pollVars, loopVars, apiTool, apiSent, apiOutcome>>

\* MCPClient.py:93-95: call_tool(name, {}) called directly: the request is
\* passed to self.client.call_tool; its error leaves the caller's with-block
DirectCallTool ==
    /\ prog = "direct" /\ pc = "api"
    /\ apiCalls < MaxApi
    /\ apiCalls' = apiCalls + 1
    /\ apiTool' \in ToolUniverse \cup {T_nope}
    /\ apiSent' = TRUE
    /\ \/ /\ apiOutcome' = "response"
          /\ UNCHANGED <<pc, exc>>
       \/ /\ apiOutcome' = "error"
          /\ pc' = "aexit_client"
          /\ exc' = "Exception"
    /\ UNCHANGED <<prog, envVars, procs, selfVars, transportOpen, delayWaited,
                   closeVars, pollVars, tool_map, listCalls, loopVars>>

\* MCPClient.py:97-99: the caller starts run_interactive_session
DirectRunSession ==
    /\ prog = "direct" /\ pc = "api"
    /\ apiCalls < MaxApi
    /\ pc' = "get_tools"
    /\ apiCalls' = 0
    /\ apiTool' = <<>>
    /\ apiSent' = FALSE
    /\ apiOutcome' = "none"
    /\ UNCHANGED <<prog, exc, envVars, procs, selfVars, transportOpen, delayWaited,
                   closeVars, pollVars, tool_map, listCalls, loopVars>>

\* the caller's with-block ends without a command loop
DirectLeave ==
    /\ prog = "direct" /\ pc = "api"
    /\ pc' = "aexit_client"
    /\ UNCHANGED <<apiVars, prog, exc, envVars, procs, selfVars, transportOpen,
                   delayWaited, closeVars, pollVars, tool_map, listCalls, loopVars>>

\* -------------------------------------------------------- the command loop
\* where an error or the end of the with-block goes
ExitPath == IF prog = "client" THEN "client_exit" ELSE "aexit_client"

\* MCPClient.py:88-91, 99 (client.py:75-76): the catalog is fetched, or the
\* request fails
GetTools ==
    /\ pc = "get_tools"
    /\ listCalls' = listCalls + 1
    /\ \/ /\ tool_map' \in Catalogs
          /\ pc' = "prompt"
          /\ exc' = exc
       \/ /\ tool_map' = tool_map
          /\ pc' = ExitPath
          /\ exc' = "Exception"
    /\ UNCHANGED <<apiVars, prog, envVars, procs, selfVars, transportOpen, delayWaited,
                   closeVars, pollVars, loopVars>>

\* the locals of the loop once it has ended
LoopEnds(how, raw) ==
    /\ loopEnd' = how
    /\ line' = raw
    /\ linesRead' = 0
    /\ lineCalls' = 0
    /\ lastCall' = NoCall
    /\ lastOutcome' = "none"
    /\ response' = NoResponse
    /\ rendered' = <<"none">>
    /\ pc' = ExitPath

\* MCPClient.py:110-160 (client.py:89-139): a line is read and handled, up
\* to the point where the loop continues, breaks, or awaits call_tool
ReadLine ==
    /\ pc = "prompt"
    /\ linesRead < MaxLines
    /\ \E raw \in Lines :
         LET cmd == ParseTable[<<tool_map, raw>>] IN
         IF cmd.kind = "exit" THEN LoopEnds("exit", raw)
         ELSE /\ line' = raw
              /\ linesRead' = linesRead + 1
              /\ lastOutcome' = "none"
              /\ response' = NoResponse
              /\ rendered' = <<cmd.kind>>
              /\ loopEnd' = loopEnd
              /\ IF cmd.kind = "invoke"
                    THEN /\ lineCalls' = 1
                         /\ lastCall' = [tool |-> cmd.tool, args |-> cmd.args]
                         /\ pc' = "awaiting_call"
                    ELSE /\ lineCalls' = 0
                         /\ lastCall' = NoCall
                         /\ pc' = "prompt"
    /\ UNCHANGED <<apiVars, prog, exc, envVars, procs, selfVars, transportOpen, delayWaited,
                   closeVars, pollVars, tool_map, listCalls>>

\* MCPClient.py:172-173 (client.py:151-152): end of input at the prompt
ReadEOF ==
    /\ pc = "prompt"
    /\ LoopEnds("eof", NoLine)
    /\ UNCHANGED <<apiVars, prog, exc, envVars, procs, selfVars, transportOpen, delayWaited,
                   closeVars, pollVars, tool_map, listCalls>>

\* MCPClient.py:174-175 (client.py:153-154): an interrupt at the prompt
ReadInterrupt ==
    /\ pc = "prompt"
    /\ LoopEnds("interrupt", NoLine)
    /\ UNCHANGED <<apiVars, prog, exc, envVars, procs, selfVars, transportOpen, delayWaited,
                   closeVars, pollVars, tool_map, listCalls>>

\* MCPClient.py:160-167 (client.py:139-146): the call returns a response,
\* which is printed; an item without text fails inside the try of line 135
CallReturns ==
    /\ pc = "awaiting_call"
    /\ \E r \in Responses :
         /\ response' = r
         /\ rendered' = IF Render(r).ok THEN <<Render(r).branch, Render(r).out>>
                        ELSE <<"error_printed">>
    /\ lastOutcome' = "response"
    /\ pc' = "prompt"
    /\ UNCHANGED <<apiVars, prog, exc, envVars, procs, selfVars, transportOpen, delayWaited,
                   closeVars, pollVars, tool_map, listCalls, linesRead, line,
                   lineCalls, lastCall, loopEnd>>

\* MCPClient.py:169-170 (client.py:148-149): the call raises an error
CallRaises ==
    /\ pc = "awaiting_call"
    /\ rendered' = <<"error_printed">>
    /\ lastOutcome' = "error"
    /\ pc' = "prompt"
    /\ UNCHANGED <<apiVars, prog, exc, envVars, procs, selfVars, transportOpen, delayWaited,
                   closeVars, pollVars, tool_map, listCalls, linesRead, line,
                   lineCalls, lastCall, response, loopEnd>>

\* MCPClient.py:160 (client.py:139): an interrupt cancels the awaited call;
\* CancelledError is no Exception and no clause of the loop catches it
CallCancelled ==
    /\ pc = "awaiting_call"
    /\ exc' = "CancelledError"
    /\ LoopEnds("cancelled", NoLine)
    /\ UNCHANGED <<apiVars, prog, envVars, procs, selfVars, transportOpen, delayWaited,
                   closeVars, pollVars, tool_map, listCalls>>

\* ------------------------------------------------------ MCPClient.__aexit__
\* where the caller of __aexit__ goes on
AfterClose == IF prog = "direct" THEN "closed" ELSE "main_except"

\* MCPClient.py:80-81: the client's __aexit__ closes the transport, which may
\* end the child process, or it fails and the error leaves __aexit__
AExitClient ==
    /\ prog \in SessionProgs /\ pc = "aexit_client"
    /\ closeCalls' = closeCalls + 1
    /\ IF client # None
          THEN /\ teardown' = Append(teardown, "client_exit")
               /\ \/ /\ transportOpen' = FALSE
                     /\ procs' \in {procs, {}}
                     /\ pc' = "aexit_cleanup"
                     /\ UNCHANGED <<exc, closeRaised>>
                  \/ /\ exc' = "Exception"
                     /\ closeRaised' = TRUE
                     /\ pc' = AfterClose
                     /\ UNCHANGED <<transportOpen, procs>>
          ELSE /\ pc' = "aexit_cleanup"
               /\ UNCHANGED <<teardown, transportOpen, procs, exc, closeRaised>>
    /\ UNCHANGED <<apiVars, prog, envVars, selfVars, delayWaited, pollVars, tool_map, listCalls,
                   loopVars>>

\* MCPClient.py:37-45: cleanup_server_process(pid) on a pid that is set: the
\* calls it makes, SIGTERM only when psutil finds the process
CleanupServerProcess(pid) ==
    IF \E p \in procs : p.pid = pid THEN <<"cleanup", "sigterm">> ELSE <<"cleanup">>

\* AExitCleanup without the `if self.server_pid:` of MCPClient.py:84
AExitCleanup_Always ==
    /\ prog \in SessionProgs /\ pc = "aexit_cleanup"
    /\ teardown' = teardown \o CleanupServerProcess(server_pid) \o <<"grace">>
    /\ procs' \in {procs, {p \in procs : p.pid # server_pid}}
    /\ pc' = AfterClose
    /\ UNCHANGED <<apiVars, prog, exc, envVars, selfVars, transportOpen, delayWaited, closeCalls,
                   closeRaised, pollVars, tool_map, listCalls, loopVars>>

\* AExitCleanup with the sleep of MCPClient.py:86 outside the `if`
AExitCleanup_GraceAlways ==
    /\ prog \in SessionProgs /\ pc = "aexit_cleanup"
    /\ IF server_pid # None
          THEN /\ teardown' = teardown \o CleanupServerProcess(server_pid) \o <<"grace">>
               /\ procs' \in {procs, {p \in procs : p.pid # server_pid}}
          ELSE /\ teardown' = Append(teardown, "grace")
               /\ procs' = procs
    /\ pc' = AfterClose
    /\ UNCHANGED <<apiVars, prog, exc, envVars, selfVars, transportOpen, delayWaited, closeCalls,
                   closeRaised, pollVars, tool_map, listCalls, loopVars>>

\* MCPClient.py:83-86: the process cleanup ("cleanup", with "sigterm" when the
\* signal is sent) and the grace period ("grace")
AExitCleanup ==
    /\ prog \in SessionProgs /\ pc = "aexit_cleanup"
    /\ IF server_pid # None
          THEN /\ teardown' = teardown \o CleanupServerProcess(server_pid) \o <<"grace">>
               /\ procs' \in {procs, {p \in procs : p.pid # server_pid}}
          ELSE UNCHANGED <<teardown, procs>>
    /\ pc' = AfterClose
    /\ UNCHANGED <<apiVars, prog, exc, envVars, selfVars, transportOpen, delayWaited, closeCalls,
                   closeRaised, pollVars, tool_map, listCalls, loopVars>>

\* a direct user calls __aexit__ once more
DirectCloseAgain ==
    /\ prog = "direct" /\ pc = "closed"
    /\ closeCalls < MaxClose
    /\ pc' = "aexit_client"
    /\ UNCHANGED <<apiVars, prog, exc, envVars, procs, selfVars, transportOpen, delayWaited,
                   closeVars, pollVars, tool_map, listCalls, loopVars>>

\* a direct user is done with the session
DirectFinish ==
    /\ prog = "direct" /\ pc = "closed"
    /\ pc' = "main_except"
    /\ UNCHANGED <<apiVars, prog, exc, envVars, procs, selfVars, transportOpen, delayWaited,
                   closeVars, pollVars, tool_map, listCalls, loopVars>>

\* MCPClient.py:186-187, figma_client.py:36-37: `except Exception` prints the
\* error; a CancelledError passes
MainExcept ==
    /\ prog \in SessionProgs /\ pc = "main_except"
    /\ exc' = IF exc = "Exception" THEN "none" ELSE exc
    /\ pc' = "done"
    /\ UNCHANGED <<apiVars, prog, envVars, procs, selfVars, transportOpen, delayWaited,
                   closeVars, pollVars, tool_map, listCalls, loopVars>>

\* ------------------------------------------------------ client.py: teardown
\* client.py:39: leaving the with-block runs the client's __aexit__, which
\* closes the connection or fails
ClientCtxExit ==
    /\ prog = "client" /\ pc = "client_exit"
    /\ teardown' = Append(teardown, "client_exit")
    /\ \/ /\ transportOpen' = FALSE
          /\ procs' \in {procs, {}}
          /\ exc' = exc
       \/ /\ exc' = "Exception"
          /\ UNCHANGED <<transportOpen, procs>>
    /\ pc' = "terminate"
    /\ UNCHANGED <<apiVars, prog, envVars, selfVars, delayWaited, closeCalls, closeRaised,
                   pollVars, tool_map, listCalls, loopVars>>

\* client.py:155-156: finally: await transport.terminate()
ClientTerminate ==
    /\ prog = "client" /\ pc = "terminate"
    /\ teardown' = Append(teardown, "terminate")
    /\ \/ /\ transportOpen' = FALSE
          /\ procs' = {}
          /\ exc' = exc
       \/ /\ exc' = "Exception"
          /\ UNCHANGED <<transportOpen, procs>>
    /\ pc' = "done"
    /\ UNCHANGED <<apiVars, prog, envVars, selfVars, delayWaited, closeCalls, closeRaised,
                   pollVars, tool_map, listCalls, loopVars>>

\* ------------------------------------------------------------ specification
Next ==
    \/ FigmaStart
    \/ GenericStart
    \/ DirectStart
    \/ AEnterOpen
    \/ AEnterPid
    \/ AEnterDelay
    \/ AEnterDelayCancelled
    \/ ClientStart
    \/ ClientConnect
    \/ ClientInitSleep
    \/ PollCall
    \/ PollSleep
    \/ PollCancelled
    \/ PollExit
    \/ DirectGetTools
    \/ DirectCallTool
    \/ DirectRunSession
    \/ DirectLeave
    \/ GetTools
    \/ ReadLine
    \/ ReadEOF
    \/ ReadInterrupt
    \/ CallReturns
    \/ CallRaises
    \/ CallCancelled
    \/ AExitClient
    \/ AExitCleanup
    \/ DirectCloseAgain
    \/ DirectFinish
    \/ MainExcept
    \/ ClientCtxExit
    \/ ClientTerminate

Spec == Init /\ [][Next]_vars

\* ================================================================== claims
\* the number of teardown calls of one kind
Count(ev) == Cardinality({i \in 1..Len(teardown) : teardown[i] = ev})
\* every call of kind a comes before every call of kind b
Before(a, b) ==
    \A i, j \in 1..Len(teardown) : teardown[i] = a /\ teardown[j] = b => i < j

\* the line is handled as a help request: its text, trimmed and lower-cased,
\* starts with "help "
HelpShaped(l) == StartsWith(Lower(Strip(l)), <<"h", "e", "l", "p", " ">>)

\* the line being handled is <tool>, <json-object> built from x: call_tool was
\* sent once, with x's tool and object, and a returned or failed call is
\* followed by the prompt
InvokedOnce(x) ==
    /\ lineCalls = 1
    /\ lastCall = [tool |-> x.tool, args |-> x.obj]
    /\ pc \in {"awaiting_call", "prompt"}
    /\ lastOutcome \in {"response", "error"} => pc = "prompt"

RejectLines(catalog) ==
    { l \in NoSepLines \cup BadJsonLines \cup NonObjLines
            \cup {x.line : x \in InvokeLines((ToolUniverse \cup {T_nope}) \ catalog)} :
        ~HelpShaped(l) }

\* RejectLines for every catalog of the model, tabulated
RejectTable == [c \in Catalogs |-> RejectLines(c)] @@ <<>>

\* C2: a line without ", ", or with invalid JSON, or with JSON that is no
\* object, or with a tool that is not in the catalog, is rejected: no call is
\* sent for it and the loop is at the next prompt.
C2_Theorem ==
    (pc \in {"prompt", "awaiting_call"} /\ line \in RejectTable[tool_map]) =>
        /\ lineCalls = 0
        /\ lastCall = NoCall
        /\ pc = "prompt"
        /\ rendered \in {<<"rejected_format">>, <<"rejected_json">>,
                         <<"rejected_notdict">>, <<"rejected_notfound">>}

\* a well-formed line for a tool the non-empty catalog lacks was rejected
C2_Witness ==
    /\ pc = "prompt"
    /\ tool_map # {}
    /\ line \in {x.line : x \in InvokeLines((ToolUniverse \cup {T_nope}) \ tool_map)}
    /\ ~HelpShaped(line)
    /\ rendered = <<"rejected_notfound">>
    /\ lineCalls = 0

\* C3: a poll in which no attempt reports connected makes exactly
\* max_retries status calls, each followed by the one-second sleep before the
\* next, and ends not ready without an error: the run goes on to fetch the
\* catalog.
C3_Theorem ==
    /\ [](prog = "client" =>
            /\ pc = "poll" /\ ~plugin_connected =>
                  pollSleeps = statusCalls /\ retries = statusCalls
            /\ warned =>
                  /\ ~plugin_connected
                  /\ statusCalls = max_retries
                  /\ pollSleeps = max_retries)
    /\ [][(pc = "poll" /\ ~plugin_connected /\ retries = max_retries) =>
            (pc' = "get_tools" /\ warned' /\ exc' = "none")]_vars

\* the poll ended not ready and the command loop has started
C3_Witness ==
    /\ prog = "client"
    /\ warned
    /\ statusCalls = max_retries
    /\ pc = "prompt"
    /\ exc = "none"

\* C4: once an attempt has reported connected, the poll makes no further
\* status call.
C4_Theorem ==
    [][plugin_connected => (statusCalls' = statusCalls /\ plugin_connected')]_vars

\* the third attempt reported connected and the poll has ended
C4_Witness ==
    /\ plugin_connected
    /\ statusCalls = 3
    /\ pollSleeps = 2
    /\ pc = "get_tools"

\* C5 as stated: __aexit__ called twice on a session that launched a process
\* makes no second attempt to signal the process.
C5_Original ==
    (Launched /\ closeCalls >= 2 /\ pc = "closed") => Count("cleanup") <= 1

\* the run served commands and ended with `exit`, closed once
ExitRunDone == pc = "done" /\ loopEnd = "exit" /\ closeCalls <= 1

\* C6 as stated: in a run that ends with `exit` the transport close is
\* invoked exactly once and, if the session launched a process, the
\* termination signal is sent exactly once, after the transport close.
C6_Original ==
    ExitRunDone =>
        /\ Count("client_exit") = 1
        /\ Launched => Count("sigterm") + Count("terminate") = 1
        /\ Before("client_exit", "sigterm")
        /\ Before("client_exit", "terminate")

\* C6, amended: the transport close is invoked exactly once and first; in
\* client.py transport.terminate() follows exactly once; in a session the
\* process cleanup follows exactly once when a process identifier was
\* recorded and the transport close returned, and not at all otherwise, and
\* SIGTERM is sent at most once, within that cleanup.
C6_Theorem ==
    ExitRunDone =>
        /\ Count("client_exit") = 1
        /\ teardown[1] = "client_exit"
        /\ prog = "client" => teardown = <<"client_exit", "terminate">>
        /\ prog \in SessionProgs =>
              /\ Count("terminate") = 0
              /\ Count("cleanup") = (IF server_pid # None /\ ~closeRaised THEN 1 ELSE 0)
              /\ Count("sigterm") <= Count("cleanup")

\* a session that launched its process ended with `exit`: transport close,
\* then the cleanup with its SIGTERM and the grace period
C6_Witness ==
    /\ ExitRunDone
    /\ prog = "figma"
    /\ Launched
    /\ teardown = <<"client_exit", "cleanup", "sigterm", "grace">>

\* C7 as stated: however the loop ends (exit, end of input, interrupt at the
\* prompt), it ends without an error and the close is then performed:
\* transport close, then process cleanup.
C7_Original ==
    (pc = "done" /\ loopEnd \in {"exit", "eof", "interrupt"}) =>
        /\ Count("client_exit") >= 1
        /\ prog = "client" => Count("terminate") >= 1
        /\ (prog \in SessionProgs /\ server_pid # None) => Count("cleanup") >= 1

\* C8 as stated: the close of a session that launched a process attempts both
\* steps, the transport close and the process signal, whichever of them fails.
C8_Original ==
    (Launched /\ server_pid # None /\ closeCalls >= 1
        /\ pc \in {"closed", "main_except", "done"}) =>
        /\ Count("client_exit") >= 1
        /\ Count("cleanup") >= 1

\* C9 as stated: the close never lets an error out to its caller.
C9_Original == ~closeRaised

\* C10 as stated: the initialization delay is waited only when the session
\* itself launched the server process.
C10_Original == delayWaited => Launched

\* C11 as stated: call_tool fails with an unknown-tool error, and passes
\* nothing on, when the name is not in the catalog fetched so far, the
\* catalog that was never fetched included.
C11_Original ==
    (pc = "api" /\ apiTool # <<>> /\ apiTool \notin tool_map) =>
        (~apiSent /\ apiOutcome = "error")

\* C12 as stated: within one session at most one list-tools request is sent,
\* however often get_tools is called.
C12_Original == listCalls <= 1

\* C13: when node is not found on the search path, the run ends at once with
\* the configuration error: no transport was created or opened, no client
\* built, no process spawned, no teardown run, and nothing is tried again.
C13_Theorem ==
    (prog \in {"client", "figma"} /\ ~node_found /\ pc # "start") =>
        /\ pc = "done"
        /\ exc = "EnvironmentError"
        /\ transport = NoTransport
        /\ client = None
        /\ ~transportOpen
        /\ procs = {}
        /\ teardown = <<>>
        /\ closeCalls = 0
        /\ listCalls = 0 /\ statusCalls = 0

\* figma_client.py has failed to resolve node and has ended
C13_Witness ==
    /\ prog = "figma"
    /\ ~node_found
    /\ pc = "done"
    /\ exc = "EnvironmentError"

\* __aenter__ has returned and the close has not begun
Entered ==
    prog \in SessionProgs /\ pc \in {"api", "get_tools", "prompt", "awaiting_call"}

TextItems(content) == SelectSeq(content, LAMBDA it : it.hasText)

\* C15 as stated: a response is rendered by exactly one of three branches:
\* the structured content when it is present, else the first text item
\* verbatim when there is textual content, else the raw response.
C15_Original ==
    lastOutcome = "response" =>
        IF response.structured_content # None
            THEN rendered = <<"structured", response.structured_content>>
        ELSE IF TextItems(response.content) # <<>>
            THEN rendered = <<"text", TextItems(response.content)[1].text>>
        ELSE rendered = <<"raw", "raw">>

\* C16 as stated: the close never begins while a tool call is outstanding: a
\* call that is in flight first returns or raises.
C16_Original ==
    [][pc = "awaiting_call" => pc' \notin {"aexit_client", "client_exit"}]_vars

\* every teardown call of kind ev comes right after one of the kinds in prev
RightAfter(ev, prev) ==
    \A i \in 1..Len(teardown) :
        teardown[i] = ev => (i > 1 /\ teardown[i - 1] \in prev)

\* C17: every close of a session closes the transport first and runs the
\* process cleanup after it; SIGTERM and the grace period occur only within
\* that cleanup; with no process identifier recorded there is no cleanup, no
\* signal and no grace period, and the transport close is performed all the
\* same.
C17_Theorem ==
    prog \in SessionProgs =>
        /\ Count("client_exit") = closeCalls
        /\ RightAfter("cleanup", {"client_exit"})
        /\ RightAfter("sigterm", {"cleanup"})
        /\ RightAfter("grace", {"cleanup", "sigterm"})
        /\ Count("grace") = Count("cleanup")
        /\ server_pid = None =>
              Count("cleanup") = 0 /\ Count("sigterm") = 0 /\ Count("grace") = 0

\* a session that launched its process but recovered no identifier has been
\* closed: the transport close was the only step
C17_Witness ==
    /\ prog = "figma"
    /\ Launched
    /\ server_pid = None
    /\ pc = "done"
    /\ closeCalls = 1
    /\ ~closeRaised
    /\ teardown = <<"client_exit">>

\* C18: a status call that raises during the poll is absorbed: no error
\* propagates, the attempt counts as one failed attempt (the sleep, then
\* retries + 1), and the poll goes on while attempts remain.
C18_Theorem ==
    /\ (prog = "client" /\ pc \in {"poll", "poll_sleep"}) => exc = "none"
    /\ lastStatus = "error" =>
          /\ pc \in {"poll", "poll_sleep"}
          /\ exc = "none"
          /\ ~plugin_connected
          /\ pc = "poll_sleep" => retries = statusCalls - 1 /\ pollSleeps = retries
          /\ pc = "poll" =>
                /\ retries = statusCalls /\ pollSleeps = retries
                /\ retries < max_retries => PollContinues(plugin_connected, retries)

\* an attempt that raised was followed by one that reported connected
C18_Witness ==
    /\ prog = "client"
    /\ prevStatus = "error"
    /\ lastStatus = "connected"
    /\ plugin_connected
    /\ statusCalls = 2
    /\ pc = "poll"

\* C19 as stated: a transport that was opened is closed on every path on
\* which the run ends; a run never ends with the transport open and no close
\* of it attempted.
C19_Original ==
    (pc = "done" /\ transportOpen) =>
        Count("client_exit") + Count("terminate") >= 1

\* the line's text, trimmed and lower-cased, is `exit` or `help`
BareKeyword(l) ==
    Lower(Strip(l)) \in {<<"e", "x", "i", "t">>, <<"h", "e", "l", "p">>}

\* the lines of the model that are of these two kinds
HelpLines == {l \in Lines : HelpShaped(l)}
KeywordLines == {l \in Lines : BareKeyword(l)}

\* C20: a line whose lower-cased text starts with `help ` is handled as a
\* help request, and a line that is `exit` or `help` as that directive; none
\* of them sends a call_tool request, whatever the catalog holds.
C20_Theorem ==
    line \in HelpLines \cup KeywordLines =>
        /\ lineCalls = 0
        /\ lastCall = NoCall
        /\ pc # "awaiting_call"
        /\ line \in HelpLines => rendered \in {<<"help_tool">>, <<"help_notfound">>}

\* a line of the shape <tool>, <json-object> whose tool is in the catalog and
\* whose text starts with `help ` was answered as a help request
C20_Witness ==
    /\ HelpShaped(line)
    /\ line \in {x.line : x \in InvokeLines(tool_map)}
    /\ rendered = <<"help_notfound">>
    /\ lineCalls = 0
    /\ pc = "prompt"

====
